---- MODULE Spec2Model ----
(***************************************************************************)
(* Model of zonalAnalysis.py: the zonal report generator.  Geometry is     *)
(* modelled exactly on a grid: a polygon is a finite set of unit cells     *)
(* <<x, y>> (the square [x,x+1] x [y,y+1]); its area is the number of      *)
(* cells times CellArea; the intersection of two polygons is the           *)
(* intersection of their cell sets.  Points live on the half-cell lattice  *)
(* (cell <<x,y>> spans [2x,2x+2] x [2y,2y+2] in point coordinates), so a   *)
(* point can lie inside a polygon, on its boundary, or outside it.         *)
(***************************************************************************)
EXTENDS Integers, Sequences, FiniteSets, TLC

VARIABLES
    inputPoly,      \* the GeoDataFrame main passes to every function
    input0,         \* the frame stored in the file named by sys.argv[1]
    layers,         \* the reference layers and the raster, by file
    avail,          \* the reference files that can be read
    status,         \* per function: "idle", "ok" or "error" (it raised)
    result,         \* per function: <<>> or <<its return value>>
    clipped_frap,   \* content of clipped_frap.tif: <<>> or <<pixel rows>>
    pc,             \* position of main: [at, i], i the next entry of MainSteps
    emitted         \* the sections pprint has written, in order

vars == <<inputPoly, input0, layers, avail, status, result, clipped_frap, pc, emitted>>

-----------------------------------------------------------------------------
(* Bounds of the model *)

GridMax == 3        \* the world is GridMax x GridMax cells
RasterW == 2        \* the raster is RasterW columns wide
CellArea == 900     \* square metres per cell

-----------------------------------------------------------------------------
(* Generic helpers *)

RECURSIVE SumSeq(_)
SumSeq(s) == IF s = <<>> THEN 0 ELSE Head(s) + SumSeq(Tail(s))

Min(S) == CHOOSE m \in S : \A k \in S : m <= k
Max(S) == CHOOSE m \in S : \A k \in S : m >= k
MinOf(a, b) == IF a <= b THEN a ELSE b
MaxOf(a, b) == IF a >= b THEN a ELSE b

RECURSIVE TrueIdx(_, _)
\* the indices k >= i of a boolean sequence that hold TRUE, ascending
TrueIdx(mask, i) ==
    IF i > Len(mask) THEN <<>>
    ELSE (IF mask[i] THEN <<i>> ELSE <<>>) \o TrueIdx(mask, i + 1)

RECURSIVE SortedAsc(_)
\* the members of a set of integers in ascending order
SortedAsc(S) == IF S = {} THEN <<>> ELSE <<Min(S)>> \o SortedAsc(S \ {Min(S)})

Range(s) == {s[i] : i \in DOMAIN s}

-----------------------------------------------------------------------------
(* Geometry *)

Steps == <<"totalArea", "hazardClass", "directProtection", "parcels", "totalStructures",
           "generalPlan", "vegetationAnalysis", "criticalInfrastructure", "SRA">>

StepSet == Range(Steps)

Rect(x0, x1, y0, y1) == {<<x, y>> : x \in x0 .. (x1 - 1), y \in y0 .. (y1 - 1)}

\* rectangles of the world, and rectangles with the top-right cell cut out
Polygons ==
    LET rects == {[x0 |-> a, x1 |-> b, y0 |-> c, y1 |-> d] :
                    a \in 0 .. (GridMax - 1), b \in 1 .. GridMax,
                    c \in 0 .. (GridMax - 1), d \in 1 .. GridMax}
        ok == {r \in rects : r.x0 < r.x1 /\ r.y0 < r.y1}
    IN  {Rect(r.x0, r.x1, r.y0, r.y1) : r \in ok}
        \cup {Rect(r.x0, r.x1, r.y0, r.y1) \ {<<r.x1 - 1, r.y1 - 1>>} :
                r \in {q \in ok : q.x1 - q.x0 >= 2 /\ q.y1 - q.y0 >= 2}}

\* geometry.area, in square metres
Area(g) == Cardinality(g) * CellArea

\* the x offset of the coordinates of a ground location in each CRS
CrsShift(c) == CASE c = "epsg:32610" -> 0
                 [] c = "epsg:3310"  -> 1
                 [] c = "epsg:4326"  -> 2

\* reprojection of one geometry
Reproject(g, from, to) == {<<c[1] + CrsShift(to) - CrsShift(from), c[2]>> : c \in g}

\* GeoDataFrame.to_crs: a new frame, the receiver is left alone
to_crs(frame, c) ==
    [frame EXCEPT !.feats = [i \in DOMAIN frame.feats |-> Reproject(frame.feats[i], frame.crs, c)],
                  !.crs = c]

\* area / 4046.856 acres, exactly, in units of 1/4046856 acre
Acres(a) == a * 1000

-----------------------------------------------------------------------------
(* vegetationAnalysis *)

\* the raster file: RasterW columns of pixels starting at x = 1, GridMax rows;
\* the pixel value is a function of the column
RasterCells == Rect(1, 1 + RasterW, 0, GridMax)

ClassCodes == {1, 2, 99}
NoDataValues == {0, 255}

Rasters == {[nodata |-> n, col |-> f] :
              n \in NoDataValues, f \in [1 .. RasterW -> ClassCodes \cup {0}]}

PixelOf(src, c) == src.col[c[1]]

\* rasterio.mask.mask(src, shapes, crop=True): <<>> when it raises (the shapes
\* do not overlap the raster), else <<the pixels of the cropped window>>, a
\* function from the window's cells to values
MaskCrop(src, shapes) ==
    LET geom == UNION Range(shapes)
        xs == {c[1] : c \in geom}
        ys == {c[2] : c \in geom}
        rx == {c[1] : c \in RasterCells}
        ry == {c[2] : c \in RasterCells}
    IN  IF geom = {} \/ Max(xs) < Min(rx) \/ Min(xs) > Max(rx)
                     \/ Max(ys) < Min(ry) \/ Min(ys) > Max(ry)
        THEN <<>>
        ELSE LET win == Rect(MaxOf(Min(xs), Min(rx)), MinOf(Max(xs), Max(rx)) + 1,
                             MaxOf(Min(ys), Min(ry)), MinOf(Max(ys), Max(ry)) + 1)
             IN  <<[c \in win |-> IF c \in geom THEN PixelOf(src, c) ELSE src.nodata]>>

\* numpy.unique(values, return_counts=True) put into the DataFrame
\* raster_counts: rows [value, Count], ascending by value
Uniques(img) ==
    LET vals == SortedAsc({img[c] : c \in DOMAIN img})
    IN  [i \in DOMAIN vals |-> [value |-> vals[i],
                                Count |-> Cardinality({c \in DOMAIN img : img[c] = vals[i]})]]

\* 900.015013545 * 0.000247105 acres per pixel, in millionths of an acre
PixelMicroAcres == 222398

\* raster_counts['acres'] = raster_counts['Count'] * (pixel acres)
WithAcres(rows) ==
    [i \in DOMAIN rows |-> [value |-> rows[i].value, Count |-> rows[i].Count,
                            acres |-> rows[i].Count * PixelMicroAcres]]

\* raster_counts.iloc[1:-1]
DropRows(rows) == SubSeq(rows, 2, Len(rows) - 1)

\* the Series returned, raster_counts["acres"]: class code -> acres
VegResult(img) ==
    LET rows == DropRows(WithAcres(Uniques(img)))
    IN  [v \in {rows[i].value : i \in DOMAIN rows} |->
            rows[CHOOSE i \in DOMAIN rows : rows[i].value = v].acres]

\* what the call leaves in the caller's frame: the reprojection works on a
\* copy (inputPoly.copy(), and to_crs returns a new frame)
VegInputAfterInPlace(frame) == to_crs(frame, "epsg:3310")
VegInputAfter(frame) == frame

\* out_img: the raster clipped by the frame reprojected to EPSG:3310, <<>>
\* when the file cannot be opened or the mask call raises
Clip(frame) ==
    LET input3310 == to_crs(frame, "epsg:3310")
    IN  IF "frap" \in avail THEN MaskCrop(layers.frap, input3310.feats) ELSE <<>>

vegetationAnalysis ==
    /\ status["vegetationAnalysis"] = "idle"
    /\ LET out == Clip(inputPoly)
       IN  IF out = <<>>
           THEN /\ status' = [status EXCEPT !["vegetationAnalysis"] = "error"]
                /\ UNCHANGED <<result, clipped_frap>>
           ELSE /\ clipped_frap' = out
                /\ status' = [status EXCEPT !["vegetationAnalysis"] = "ok"]
                /\ result' = [result EXCEPT !["vegetationAnalysis"] = <<VegResult(out[1])>>]
    /\ inputPoly' = VegInputAfter(inputPoly)

-----------------------------------------------------------------------------
(* totalStructures and criticalInfrastructure *)

\* the cells whose closed square holds the lattice coordinate k
CellsAt(k) == IF k % 2 = 1 THEN {(k - 1) \div 2} ELSE {(k \div 2) - 1, k \div 2}

\* the cells whose closed square holds the point p
AdjCells(p) == {<<x, y>> : x \in CellsAt(p[1]), y \in CellsAt(p[2])}

\* shapely: point.within(polygon), the point lies in the polygon's interior
WithinOrTouches(p, g) == AdjCells(p) \cap g # {}
Within(p, g) == AdjCells(p) \subseteq g

\* structures.within(inputPoly.loc[0, 'geometry']): the boolean Series
WithinMask(pts, frame) == [i \in DOMAIN pts |-> Within(pts[i], frame.feats[1])]

\* mask.loc[mask == True].count()
CountTrue(mask) == Cardinality({i \in DOMAIN mask : mask[i]})

\* list(cf.loc[mask]["Name"])
NamesLoc(cf, mask) ==
    LET idx == TrueIdx(mask, 1)
    IN  [k \in DOMAIN idx |-> cf[idx[k]].Name]

StructuresResult(frame) ==
    LET mask == WithinMask(layers.structures, frame)
    IN  [Count |-> CountTrue(mask)]

FacilitiesResult(frame) ==
    LET mask == WithinMask([i \in DOMAIN layers.cf |-> layers.cf[i].pt], frame)
    IN  [Count |-> CountTrue(mask), Facilities |-> NamesLoc(layers.cf, mask)]

totalStructures ==
    /\ status["totalStructures"] = "idle"
    /\ IF "structures" \notin avail \/ Len(inputPoly.feats) = 0
       THEN /\ status' = [status EXCEPT !["totalStructures"] = "error"]
            /\ UNCHANGED result
       ELSE /\ status' = [status EXCEPT !["totalStructures"] = "ok"]
            /\ result' = [result EXCEPT !["totalStructures"] = <<StructuresResult(inputPoly)>>]
    /\ UNCHANGED <<inputPoly, clipped_frap>>

criticalInfrastructure ==
    /\ status["criticalInfrastructure"] = "idle"
    /\ IF "cf" \notin avail \/ Len(inputPoly.feats) = 0
       THEN /\ status' = [status EXCEPT !["criticalInfrastructure"] = "error"]
            /\ UNCHANGED result
       ELSE /\ status' = [status EXCEPT !["criticalInfrastructure"] = "ok"]
            /\ result' = [result EXCEPT !["criticalInfrastructure"] = <<FacilitiesResult(inputPoly)>>]
    /\ UNCHANGED <<inputPoly, clipped_frap>>

-----------------------------------------------------------------------------
(* totalArea and the polygon overlays *)

Null == "<null>"    \* a missing attribute value (None / NaN)

\* inputPoly["acres"] = ...: assigning a column replaces it where it stands,
\* or appends it
SetColumn(cols, name) == IF name \in Range(cols) THEN cols ELSE Append(cols, name)

NonGeom(cols) == SelectSeq(cols, LAMBDA c : c # "geometry")

totalArea ==
    /\ status["totalArea"] = "idle"
    /\ LET acres == [i \in DOMAIN inputPoly.feats |-> Acres(Area(inputPoly.feats[i]))]
       IN  /\ inputPoly' = [inputPoly EXCEPT
                               !.cols = SetColumn(inputPoly.cols, "acres"),
                               !.data = ("acres" :> acres) @@ inputPoly.data]
           /\ IF Len(inputPoly.feats) = 0
              THEN /\ status' = [status EXCEPT !["totalArea"] = "error"]
                   /\ UNCHANGED result
              ELSE /\ status' = [status EXCEPT !["totalArea"] = "ok"]
                   /\ result' = [result EXCEPT !["totalArea"] = <<[Acreage |-> acres[1]]>>]
    /\ UNCHANGED clipped_frap

RECURSIVE Pairs(_, _, _, _)
\* the pairs <<i, j>>, i-major, of a reference feature and an input feature
\* that share area
Pairs(ref, feats, i, j) ==
    IF i > Len(ref) THEN <<>>
    ELSE IF j > Len(feats) THEN Pairs(ref, feats, i + 1, 1)
    ELSE (IF ref[i].geom \cap feats[j] # {} THEN <<<<i, j>>>> ELSE <<>>)
         \o Pairs(ref, feats, i, j + 1)

\* gpd.overlay(ref, inputPoly, how='intersection'): one row per pair, its
\* geometry the intersection, i and j naming the features its attributes
\* come from
OverlayUnclipped(ref, frame) ==
    LET prs == Pairs(ref, frame.feats, 1, 1)
    IN  [k \in DOMAIN prs |-> [geom |-> ref[prs[k][1]].geom, i |-> prs[k][1], j |-> prs[k][2]]]
Overlay(ref, frame) ==
    LET prs == Pairs(ref, frame.feats, 1, 1)
    IN  [k \in DOMAIN prs |-> [geom |-> ref[prs[k][1]].geom \cap frame.feats[prs[k][2]],
                               i |-> prs[k][1], j |-> prs[k][2]]]

\* the columns of the overlay result
OverlayCols(refCols, frame) == refCols \o NonGeom(frame.cols) \o <<"geometry">>

\* x['acres'] = x['geometry'].area / 4046.856
RowAcres(row) == Acres(Area(row.geom))

\* x[test]["acres"].sum(), test the boolean Series selecting the rows
AcresWhere(rows, test) ==
    SumSeq([k \in DOMAIN rows |-> IF test[k] THEN RowAcres(rows[k]) ELSE 0])

\* whether the overlay step raises: it does when its file cannot be read; on
\* an input frame without features gpd.overlay raises or returns no rows,
\* depending on the geopandas release
Raises(file) == IF file \notin avail THEN {TRUE}
                ELSE IF Len(inputPoly.feats) = 0 THEN BOOLEAN ELSE {FALSE}

Finish(step, file, value) ==
    /\ \E raises \in Raises(file) :
          IF raises
          THEN /\ status' = [status EXCEPT ![step] = "error"]
               /\ UNCHANGED result
          ELSE /\ status' = [status EXCEPT ![step] = "ok"]
               /\ result' = [result EXCEPT ![step] = <<value>>]
    /\ UNCHANGED <<inputPoly, clipped_frap>>

HazardResult(frame) ==
    LET rows == Overlay(layers.fhz, frame)
        code(r) == layers.fhz[r.i].HAZ_CODE
    IN  [NonWildland |-> AcresWhere(rows, [k \in DOMAIN rows |-> code(rows[k]) < 0]),
         Moderate |-> AcresWhere(rows, [k \in DOMAIN rows |-> code(rows[k]) = 1]),
         High |-> AcresWhere(rows, [k \in DOMAIN rows |-> code(rows[k]) = 2]),
         Very_High |-> AcresWhere(rows, [k \in DOMAIN rows |-> code(rows[k]) = 3])]

hazardClass ==
    /\ status["hazardClass"] = "idle"
    /\ Finish("hazardClass", "fhz", HazardResult(inputPoly))

DpaResult(frame) ==
    LET rows == Overlay(layers.dpa, frame)
        grp(r) == layers.dpa[r.i].DPA_GROUP
    IN  [Local |-> AcresWhere(rows, [k \in DOMAIN rows |-> grp(rows[k]) = "LOCAL"]),
         State |-> AcresWhere(rows, [k \in DOMAIN rows |-> grp(rows[k]) = "STATE"]),
         federal |-> AcresWhere(rows, [k \in DOMAIN rows |-> grp(rows[k]) = "FEDERAL"])]

directProtection ==
    /\ status["directProtection"] = "idle"
    /\ Finish("directProtection", "dpa", DpaResult(inputPoly))

SraResult(frame) ==
    LET rows == Overlay(layers.sra, frame)
        des(r) == layers.sra[r.i].SRA
    IN  [Local |-> AcresWhere(rows, [k \in DOMAIN rows |-> des(rows[k]) = "LRA"]),
         State |-> AcresWhere(rows, [k \in DOMAIN rows |-> des(rows[k]) = "SRA"]),
         federal |-> AcresWhere(rows, [k \in DOMAIN rows |-> des(rows[k]) = "FRA"])]

SRA ==
    /\ status["SRA"] = "idle"
    /\ Finish("SRA", "sra", SraResult(inputPoly))

\* the value of column c in an overlay row once 'acres' has been assigned
ColVal(row, c, frame) == IF c = "acres" THEN RowAcres(row) ELSE frame.data[c][row.j]

Perms(S) == {f \in [1 .. Cardinality(S) -> S] : \A a, b \in DOMAIN f : f[a] = f[b] => a = b}

\* the returns generalPlan can produce: the overlay dissolved by GP_Type
\* (rows without a GP_Type fall out of the groups) with every other column
\* summed, sorted by acres descending (the order of equal acreages is not
\* specified), then the index and the last column taken
GeneralPlanResults(frame) ==
    LET rows == Overlay(layers.gpa, frame)
        cols == SetColumn(OverlayCols(<<"GP_Type">>, frame), "acres")
        type(r) == layers.gpa[r.i].GP_Type
        keys == {type(rows[k]) : k \in DOMAIN rows} \ {Null}
        dcols == <<"geometry">> \o SelectSeq(cols, LAMBDA c : c \notin {"geometry", "GP_Type"})
        GroupSum(key, c) ==
            SumSeq([k \in DOMAIN rows |-> IF type(rows[k]) = key
                                          THEN ColVal(rows[k], c, frame) ELSE 0])
        sorted == {ord \in Perms(keys) :
                     \A k \in 1 .. (Len(ord) - 1) :
                        GroupSum(ord[k], "acres") >= GroupSum(ord[k + 1], "acres")}
    IN  {[Designation |-> ord,
          Acreage |-> [k \in DOMAIN ord |-> GroupSum(ord[k], dcols[Len(dcols)])]] :
            ord \in sorted}

generalPlan ==
    /\ status["generalPlan"] = "idle"
    /\ \E value \in GeneralPlanResults(inputPoly) : Finish("generalPlan", "gpa", value)

-----------------------------------------------------------------------------
(* parcels *)

TopN == 6   \* the slice [0:6]

OwnerNames == <<"A", "B", "C", "D", "E", "F", "G", "H", "I", "J">>

OwnerIdx(name) == CHOOSE i \in DOMAIN OwnerNames : OwnerNames[i] = name

\* x.count()[col]: the rows whose col is not missing
CountNotNull(vals) == Cardinality({k \in DOMAIN vals : vals[k] # Null})

RECURSIVE SortAsc(_, _, _)
RECURSIVE SortDesc(_, _, _)
\* sort_values(by="ACRES", ascending=False) of the owner groups: keys is the
\* set of owners, val[o] the summed ACRES of owner o; which of two owners of
\* equal acreage comes first is not specified: tie = "fwd" keeps them in
\* index order, tie = "rev" in the reverse order
SortAsc(keys, val, tie) ==
    IF keys = {} THEN <<>>
    ELSE LET worst == {o \in keys : \A q \in keys : val[o] <= val[q]}
             pick == IF tie = "fwd"
                     THEN CHOOSE o \in worst : \A q \in worst : OwnerIdx(o) <= OwnerIdx(q)
                     ELSE CHOOSE o \in worst : \A q \in worst : OwnerIdx(o) >= OwnerIdx(q)
         IN  <<pick>> \o SortAsc(keys \ {pick}, val, tie)
SortDesc(keys, val, tie) ==
    IF keys = {} THEN <<>>
    ELSE LET best == {o \in keys : \A q \in keys : val[o] >= val[q]}
             pick == IF tie = "fwd"
                     THEN CHOOSE o \in best : \A q \in best : OwnerIdx(o) <= OwnerIdx(q)
                     ELSE CHOOSE o \in best : \A q \in best : OwnerIdx(o) >= OwnerIdx(q)
         IN  <<pick>> \o SortDesc(keys \ {pick}, val, tie)

\* s[0:n]
Slice(s, n) == SubSeq(s, 1, MinOf(n, Len(s)))

\* par_intersect[par_intersect["Owner"] == person].count()["geometry"]
OwnerRows(rows, person) ==
    Cardinality({k \in DOMAIN rows : layers.par[rows[k].i].Owner = person})

ParcelsResult(frame, tie) ==
    LET rows == Overlay(layers.par, frame)
        attr(k) == layers.par[rows[k].i]
        totalParcels == CountNotNull([k \in DOMAIN rows |-> attr(k).APN])
        avgParcel == [sum |-> SumSeq([k \in DOMAIN rows |-> attr(k).ACRES]), n |-> Len(rows)]
        \* dissolve(by="Owner", aggfunc="sum"): rows without an Owner fall out
        owners == {attr(k).Owner : k \in DOMAIN rows} \ {Null}
        acres == [o \in owners |->
                    SumSeq([k \in DOMAIN rows |-> IF attr(k).Owner = o THEN attr(k).ACRES ELSE 0])]
        totalOwners == Cardinality(owners)
        sorted == SortDesc(owners, acres, tie)
        top6OwnersNames == Slice(sorted, TopN)
        top6OwnersAcres == [k \in DOMAIN top6OwnersNames |-> acres[top6OwnersNames[k]]]
        top6OwnersParcels == [k \in DOMAIN top6OwnersNames |-> OwnerRows(rows, top6OwnersNames[k])]
    IN  [Total_Parcels |-> totalParcels,
         Total_Owners |-> totalOwners,
         Top_6_Owners |-> <<top6OwnersAcres, top6OwnersNames, top6OwnersParcels>>,
         Average_Parcel_Size |-> avgParcel]

parcels ==
    /\ status["parcels"] = "idle"
    /\ \E tie \in {"fwd", "rev"} : Finish("parcels", "par", ParcelsResult(inputPoly, tie))

-----------------------------------------------------------------------------
(* main *)

\* main with every call restored
AllSteps == Steps
\* the functions main calls, in order: every call but the last is commented out
MainSteps == <<"SRA">>

\* the key under which a function returns its section (vegetationAnalysis
\* returns a bare Series, printed under a heading)
SectionName(step) ==
    CASE step = "totalArea" -> "Total_Area"
      [] step = "hazardClass" -> "Fire Hazard Severity"
      [] step = "directProtection" -> "Direct Protection Areas"
      [] step = "parcels" -> "Parcel Analysis"
      [] step = "totalStructures" -> "Estimated Structures"
      [] step = "generalPlan" -> "General Plan"
      [] step = "vegetationAnalysis" -> "FRAP fuel models (Acres)"
      [] step = "criticalInfrastructure" -> "Critical_Facilities"
      [] step = "SRA" -> "State Responsibility Area"

\* the body of one function
Call(step) ==
    \/ step = "totalArea" /\ totalArea
    \/ step = "hazardClass" /\ hazardClass
    \/ step = "directProtection" /\ directProtection
    \/ step = "parcels" /\ parcels
    \/ step = "totalStructures" /\ totalStructures
    \/ step = "generalPlan" /\ generalPlan
    \/ step = "vegetationAnalysis" /\ vegetationAnalysis
    \/ step = "criticalInfrastructure" /\ criticalInfrastructure
    \/ step = "SRA" /\ SRA

NoFrame == [feats |-> <<>>, cols |-> <<>>, crs |-> "", data |-> <<>>]

\* inputPoly = gpd.read_file(sys.argv[1])
ReadFile ==
    /\ pc.at = "start"
    /\ IF "input" \in avail
       THEN inputPoly' = input0 /\ pc' = [pc EXCEPT !.at = "to_crs"]
       ELSE inputPoly' = inputPoly /\ pc' = [pc EXCEPT !.at = "error"]
    /\ UNCHANGED <<input0, layers, avail, status, result, clipped_frap, emitted>>

\* inputPoly.to_crs({'init': 'epsg:32610'}): the frame it returns is dropped
ToCrs(frame) == frame

MakeSure ==
    /\ pc.at = "to_crs"
    /\ inputPoly' = ToCrs(inputPoly)
    /\ pc' = [at |-> IF MainSteps = <<>> THEN "done" ELSE "steps", i |-> 1]
    /\ UNCHANGED <<input0, layers, avail, status, result, clipped_frap, emitted>>

\* pprint.pprint(f(inputPoly)): the function runs; if it returns, its value is
\* printed and main goes on; if it raises, main ends there
MainStep ==
    /\ pc.at = "steps"
    /\ LET step == MainSteps[pc.i]
       IN  /\ Call(step)
           /\ IF status'[step] = "ok"
              THEN /\ emitted' = Append(emitted, [step |-> step, section |-> SectionName(step),
                                                  value |-> result'[step][1]])
                   /\ pc' = IF pc.i = Len(MainSteps) THEN [at |-> "done", i |-> pc.i + 1]
                                                     ELSE [at |-> "steps", i |-> pc.i + 1]
              ELSE /\ emitted' = emitted
                   /\ pc' = [pc EXCEPT !.at = "error"]
    /\ UNCHANGED <<input0, layers, avail>>

-----------------------------------------------------------------------------
(* Frames and initial states *)

Files == {"fhz", "dpa", "par", "structures", "gpa", "frap", "cf", "sra"}

NoLayers == [frap |-> [nodata |-> 0, col |-> [x \in 1 .. RasterW |-> 0]],
             structures |-> <<>>, cf |-> <<>>,
             fhz |-> <<>>, dpa |-> <<>>, par |-> <<>>, gpa |-> <<>>, sra |-> <<>>]

Frame(feats, crs) ==
    [feats |-> feats, cols |-> <<"Id", "geometry">>, crs |-> crs,
     data |-> [n \in {"Id"} |-> [i \in DOMAIN feats |-> i]]]

\* what a call of one function from outside main leaves alone
Outer == UNCHANGED <<input0, layers, avail, pc, emitted>>

Idle ==
    /\ status = [s \in StepSet |-> "idle"]
    /\ result = [s \in StepSet |-> <<>>]
    /\ clipped_frap = <<>>
    /\ emitted = <<>>

InitVeg ==
    /\ \E g \in Polygons, c \in {"epsg:32610", "epsg:3310"} : input0 = Frame(<<g>>, c)
    /\ inputPoly = input0
    /\ \E r \in Rasters : layers = [NoLayers EXCEPT !.frap = r]
    /\ avail = {"frap"}
    /\ pc = [at |-> "call", i |-> 0]
    /\ Idle

CallVeg == vegetationAnalysis /\ Outer

NextVeg == CallVeg

\* polygon layers: one feature per present column of the world, a strip of
\* full height; config[x] = 0 leaves column x out, config[x] = k > 0 gives
\* the strip the k-th value of the layer's value list
HazCodes == <<-1, 2, 0, 4>>
DpaGroups == <<"LOCAL", "FEDERAL", "STATE", "TRIBAL">>
GpTypes == <<"AG", "RES", "AG", Null>>
SraValues == <<"LRA", "SRA", "FRA", "OTHER">>

StripConfigs == [0 .. (GridMax - 1) -> 0 .. 4]

StripXs(config) == SelectSeq([i \in 1 .. GridMax |-> i - 1], LAMBDA x : config[x] # 0)

Strip(x) == Rect(x, x + 1, 0, GridMax)

StripLayers(config) ==
    LET xs == StripXs(config)
    IN  [NoLayers EXCEPT
           !.fhz = [k \in DOMAIN xs |-> [geom |-> Strip(xs[k]), HAZ_CODE |-> HazCodes[config[xs[k]]]]],
           !.dpa = [k \in DOMAIN xs |-> [geom |-> Strip(xs[k]), DPA_GROUP |-> DpaGroups[config[xs[k]]]]],
           !.gpa = [k \in DOMAIN xs |-> [geom |-> Strip(xs[k]), GP_Type |-> GpTypes[config[xs[k]]]]],
           !.sra = [k \in DOMAIN xs |-> [geom |-> Strip(xs[k]), SRA |-> SraValues[config[xs[k]]]]]]

InitOverlay ==
    /\ \E g \in {h \in Polygons : <<0, 0>> \in h /\ \A c \in h : c[2] <= 1} :
          input0 = Frame(<<g>>, "epsg:32610")
    /\ inputPoly = input0
    /\ \E config \in StripConfigs : layers = StripLayers(config)
    /\ avail = {"fhz", "dpa", "gpa", "sra"}
    /\ pc = [at |-> "call", i |-> 0]
    /\ Idle

CallArea == totalArea /\ Outer
CallHazard == hazardClass /\ Outer
CallDpa == directProtection /\ Outer
CallGeneralPlan == generalPlan /\ Outer
CallSra == SRA /\ Outer

NextOverlay == CallArea \/ CallHazard \/ CallDpa \/ CallGeneralPlan \/ CallSra

SpecOverlay == InitOverlay /\ [][NextOverlay]_vars

MaxOwners == 7      \* the parcel layer names at most MaxOwners owners

\* the parcel layer: one parcel per cell of the world, row by row; parcel k
\* belongs to owner ((k - 1) mod n) + 1 and has ACRES 1 + (k * m mod 3); the
\* first parcel may lack its Owner and the first or second its APN
ParcelLayer(n, m, noOwner, noApn) ==
    [k \in 1 .. (GridMax * GridMax) |->
        [geom |-> {<<(k - 1) % GridMax, (k - 1) \div GridMax>>},
         APN |-> IF k = noApn THEN Null ELSE "apn",
         Owner |-> IF k = noOwner THEN Null ELSE OwnerNames[((k - 1) % n) + 1],
         ACRES |-> 1 + ((k * m) % 3)]]

InitParcels ==
    /\ \E g \in {h \in Polygons : <<0, 0>> \in h} \cup {{<<GridMax, GridMax>>}} :
          input0 = Frame(<<g>>, "epsg:32610")
    /\ inputPoly = input0
    /\ \E n \in 1 .. MaxOwners, m \in 0 .. 2, noOwner \in 0 .. 1, noApn \in 0 .. 2 :
          layers = [NoLayers EXCEPT !.par = ParcelLayer(n, m, noOwner, noApn)]
    /\ avail = {"par"}
    /\ pc = [at |-> "call", i |-> 0]
    /\ Idle

CallParcels == parcels /\ Outer

NextParcels == CallParcels

SpecParcels == InitParcels /\ [][NextParcels]_vars

CRSs == {"epsg:32610", "epsg:3310", "epsg:4326"}

\* the input file holds no, one or two polygon features
InputFeats == {<<>>} \cup {<<g>> : g \in Polygons}
              \cup {<<g, h>> : g \in {Strip(0)}, h \in {Strip(GridMax - 1), Rect(0, 1, 0, 1)}}

\* the strips carry the layer's values in turn, starting with the v-th
Turn(v) == [x \in 0 .. (GridMax - 1) |-> ((x + v) % 4) + 1]

InitMain ==
    /\ \E f \in InputFeats, c \in CRSs : input0 = Frame(f, c)
    /\ inputPoly = NoFrame
    /\ \E v \in 0 .. 1 : layers = StripLayers(Turn(v))
    /\ \E missing \in SUBSET ({"input"} \cup {"sra"}) :
          avail = (Files \cup {"input"}) \ missing
    /\ pc = [at |-> "start", i |-> 0]
    /\ Idle

NextMain == ReadFile \/ MakeSure \/ MainStep

SpecMain == InitMain /\ [][NextMain]_vars

MaxPts == 2         \* a point layer holds at most MaxPts points

Lattice == {<<p, q>> : p \in 0 .. (GridMax + 1), q \in {1, 2}}

PointSeqs == UNION {[1 .. n -> Lattice] : n \in 0 .. MaxPts}

FacilityNames == <<"F1", "F2", "F3", "F4">>

InitPoints ==
    /\ \E g \in {h \in Polygons : <<0, 0>> \in h} : input0 = Frame(<<g>>, "epsg:32610")
    /\ inputPoly = input0
    /\ \E pts \in PointSeqs :
          layers = [NoLayers EXCEPT
                      !.structures = pts,
                      !.cf = [i \in DOMAIN pts |-> [pt |-> pts[i], Name |-> FacilityNames[i]]]]
    /\ avail = {"structures", "cf"}
    /\ pc = [at |-> "call", i |-> 0]
    /\ Idle

CallStructures == totalStructures /\ Outer
CallFacilities == criticalInfrastructure /\ Outer

NextPoints == CallStructures \/ CallFacilities

SpecPoints == InitPoints /\ [][NextPoints]_vars

\* any function may be called on the frame main has loaded, in any order
InitSteps ==
    /\ \E g \in {h \in Polygons : <<0, 0>> \in h} : input0 = Frame(<<g>>, "epsg:32610")
    /\ inputPoly = input0
    /\ \E v \in 0 .. 1 :
          layers = [StripLayers(Turn(v)) EXCEPT
                      !.par = ParcelLayer(2 + v, v, 0, 0),
                      !.structures = <<<<1, 1>>, <<2, 2>>>>,
                      !.cf = <<[pt |-> <<2, 1>>, Name |-> "F1"], [pt |-> <<1, 1>>, Name |-> "F2"]>>,
                      !.frap = [nodata |-> 0, col |-> [x \in 1 .. RasterW |-> IF x % 2 = v THEN 1 ELSE 2]]]
    /\ avail = Files
    /\ pc = [at |-> "call", i |-> 0]
    /\ Idle

NextSteps ==
    \/ CallArea \/ CallHazard \/ CallDpa \/ CallParcels \/ CallStructures
    \/ CallGeneralPlan \/ CallVeg \/ CallFacilities \/ CallSra

SpecSteps == InitSteps /\ [][NextSteps]_vars

SpecVeg == InitVeg /\ [][NextVeg]_vars

-----------------------------------------------------------------------------
(* Claims about vegetationAnalysis *)

ClippedValues == {clipped_frap[1][c] : c \in DOMAIN clipped_frap[1]}

\* C2: vegetationAnalysis returns an entry for every class code that occurs in
\* the clipped raster except the no-data value, and none for the no-data value.
C2_ExactlyNoDataExcluded ==
    status["vegetationAnalysis"] = "ok" =>
        DOMAIN result["vegetationAnalysis"][1] = ClippedValues \ {layers.frap.nodata}

\* the input polygon, in the raster's CRS, shares no cell with the raster
OutsideRaster ==
    (UNION Range(to_crs(input0, "epsg:3310").feats)) \cap RasterCells = {}

\* C7: when the polygon lies entirely outside the raster's extent the
\* vegetation aggregation completes normally with an empty result; it never
\* ends in an error state.
C7_EmptyIntersectionIsNoError ==
    OutsideRaster =>
        /\ status["vegetationAnalysis"] # "error"
        /\ status["vegetationAnalysis"] = "ok" =>
               DOMAIN result["vegetationAnalysis"][1] = {}

-----------------------------------------------------------------------------
(* Claims about the point counts *)

TheGeom == input0.feats[1]

\* position of a point relative to the input polygon
Outside(p) == \A c \in AdjCells(p) : c \notin TheGeom
OnBoundary(p) == (\E c \in AdjCells(p) : c \in TheGeom) /\ (\E c \in AdjCells(p) : c \notin TheGeom)
Inside(p) == ~Outside(p) /\ ~OnBoundary(p)

RECURSIVE InsideNames(_)
\* the names of the facilities inside the polygon, in the layer's order
InsideNames(cf) ==
    IF cf = <<>> THEN <<>>
    ELSE (IF Inside(Head(cf).pt) THEN <<Head(cf).Name>> ELSE <<>>) \o InsideNames(Tail(cf))

\* C5: the count of totalStructures and criticalInfrastructure is the number
\* of layer points strictly inside the polygon (boundary and outside points
\* count 0), and Facilities holds exactly Count names, one per inside point,
\* in the layer's feature order.
C5_StrictContainment ==
    /\ status["totalStructures"] = "ok" =>
          result["totalStructures"][1].Count =
             Cardinality({i \in DOMAIN layers.structures : Inside(layers.structures[i])})
    /\ status["criticalInfrastructure"] = "ok" =>
          LET r == result["criticalInfrastructure"][1]
          IN  /\ r.Count = Cardinality({i \in DOMAIN layers.cf : Inside(layers.cf[i].pt)})
              /\ Len(r.Facilities) = r.Count
              /\ r.Facilities = InsideNames(layers.cf)

\* both functions have run on a layer holding an inside point followed by a
\* boundary point
C5_Witness ==
    /\ status["totalStructures"] = "ok"
    /\ status["criticalInfrastructure"] = "ok"
    /\ Len(layers.cf) = 2
    /\ OnBoundary(layers.cf[1].pt)
    /\ Inside(layers.cf[2].pt)
    /\ result["criticalInfrastructure"][1].Facilities = <<"F2">>
    /\ result["totalStructures"][1].Count = 1

-----------------------------------------------------------------------------
(* Claims about the polygon overlays *)

\* the polygon-overlay aggregations, each with its layer
OverlaySteps == {"hazardClass", "directProtection", "generalPlan", "SRA"}

LayerOf(step) == CASE step = "hazardClass" -> layers.fhz
                   [] step = "directProtection" -> layers.dpa
                   [] step = "generalPlan" -> layers.gpa
                   [] step = "SRA" -> layers.sra

\* the layer's features cover the whole input polygon (strips never overlap)
Covers(layer) == TheGeom \subseteq UNION {layer[i].geom : i \in DOMAIN layer}

\* the sum of the acreages a section reports, over all its categories
SectionSum(step) ==
    LET r == result[step][1]
    IN  CASE step = "hazardClass" -> r.NonWildland + r.Moderate + r.High + r.Very_High
          [] step = "directProtection" -> r.Local + r.State + r.federal
          [] step = "generalPlan" -> SumSeq(r.Acreage)
          [] step = "SRA" -> r.Local + r.State + r.federal

\* the feature carries a category value its aggregation reports
Reported(step, f) ==
    CASE step = "hazardClass" -> f.HAZ_CODE < 0 \/ f.HAZ_CODE \in {1, 2, 3}
      [] step = "directProtection" -> f.DPA_GROUP \in {"LOCAL", "STATE", "FEDERAL"}
      [] step = "generalPlan" -> f.GP_Type # Null
      [] step = "SRA" -> f.SRA \in {"LRA", "SRA", "FRA"}

\* the cells of the input polygon lying in a feature whose value is not reported
UnreportedCells(step) ==
    {c \in TheGeom : \E i \in DOMAIN LayerOf(step) :
                        c \in LayerOf(step)[i].geom /\ ~Reported(step, LayerOf(step)[i])}

Settled(step) == status[step] = "ok" /\ status["totalArea"] = "ok" /\ Covers(LayerOf(step))

\* C6 as stated: for a layer covering the polygon with non-overlapping
\* features, the acreages of all categories sum to Total_Area whatever the
\* category values of the features are.
C6_SumEqualsTotalForAnyValues ==
    \A step \in OverlaySteps :
        Settled(step) => SectionSum(step) = result["totalArea"][1].Acreage

\* C6 amended: the acreages of all categories sum to Total_Area less the
\* acreage of the polygon's part lying in features whose category value the
\* aggregation does not report; so to Total_Area when there is no such part.
C6_SumEqualsTotalOfReported ==
    \A step \in OverlaySteps :
        Settled(step) =>
            /\ SectionSum(step) + Acres(Cardinality(UnreportedCells(step)) * CellArea)
                  = result["totalArea"][1].Acreage
            /\ UnreportedCells(step) = {} =>
                  SectionSum(step) = result["totalArea"][1].Acreage

\* every overlay has run on a covered polygon that spans several features,
\* some with a reported value, and the sums equal the total area
C6_Witness ==
    /\ \A step \in OverlaySteps : Settled(step) /\ UnreportedCells(step) = {}
    /\ Len(layers.fhz) = GridMax
    /\ \E i, k \in DOMAIN layers.fhz :
          /\ layers.fhz[i].HAZ_CODE # layers.fhz[k].HAZ_CODE
          /\ layers.fhz[i].geom \cap TheGeom # {}
          /\ layers.fhz[k].geom \cap TheGeom # {}
    /\ result["hazardClass"][1].NonWildland > 0
    /\ result["hazardClass"][1].High > 0
    /\ SectionSum("generalPlan") = result["totalArea"][1].Acreage

-----------------------------------------------------------------------------
(* Claims about parcels *)

\* the parcels that share area with the input polygon: the overlay's rows
Clipped == {k \in DOMAIN layers.par : layers.par[k].geom \cap TheGeom # {}}

OwnersIn == {layers.par[k].Owner : k \in Clipped} \ {Null}

ParcelsOf(o) == {k \in Clipped : layers.par[k].Owner = o}

RECURSIVE SumOver(_, _)
SumOver(S, f) == IF S = {} THEN 0
                 ELSE LET x == CHOOSE y \in S : TRUE IN f[x] + SumOver(S \ {x}, f)

\* C3: the parcel rows counted per owner group, summed over all owner groups,
\* equal Total_Parcels, also when rows lack their Owner or APN.
C3_GroupCountsSumToTotal ==
    status["parcels"] = "ok" =>
        SumOver(OwnersIn, [o \in OwnersIn |-> Cardinality(ParcelsOf(o))])
            = result["parcels"][1].Total_Parcels

\* C4: each of the three Top_6_Owners lists has min(6, Total_Owners) entries,
\* the acreages never increase, and position i of the three lists describes
\* one owner: summed ACRES and number of that owner's overlay rows.
C4_TopSixOwners ==
    status["parcels"] = "ok" =>
        LET r == result["parcels"][1]
            acres == r.Top_6_Owners[1]
            names == r.Top_6_Owners[2]
            counts == r.Top_6_Owners[3]
            len == IF r.Total_Owners < 6 THEN r.Total_Owners ELSE 6
        IN  /\ Len(acres) = len /\ Len(names) = len /\ Len(counts) = len
            /\ \A i \in 1 .. (len - 1) : acres[i] >= acres[i + 1]
            /\ \A i \in 1 .. len :
                  /\ names[i] \in OwnersIn
                  /\ acres[i] = SumOver(ParcelsOf(names[i]),
                                        [k \in DOMAIN layers.par |-> layers.par[k].ACRES])
                  /\ counts[i] = Cardinality(ParcelsOf(names[i]))

\* parcels has cut seven owners of differing acreage down to six, one of
\* them holding two parcels
C4_Witness ==
    /\ status["parcels"] = "ok"
    /\ result["parcels"][1].Total_Owners = 7
    /\ Len(result["parcels"][1].Top_6_Owners[2]) = 6
    /\ result["parcels"][1].Top_6_Owners[1][1] > result["parcels"][1].Top_6_Owners[1][6]
    /\ \E i \in 1 .. 6 : result["parcels"][1].Top_6_Owners[3][i] = 2

-----------------------------------------------------------------------------
(* Claims about main *)

EmittedSteps == [k \in DOMAIN emitted |-> emitted[k].step]

\* C1: for a valid input polygon one run of main executes every aggregation
\* exactly once, in the fixed order, and the report holds one section per
\* aggregation.
C1_EveryAggregationOnce ==
    (Len(input0.feats) = 1 /\ pc.at = "done") =>
        /\ EmittedSteps = Steps
        /\ \A step \in StepSet : status[step] = "ok"

\* C8: an input file holding no polygon feature, or more than one, is
\* rejected: the run does not complete and emits no section.
C8_InvalidInputRejected ==
    Len(input0.feats) # 1 => (pc.at # "done" /\ emitted = <<>>)

-----------------------------------------------------------------------------
(* Claims about the shared input polygon *)

\* what a function can return when it is the first to run on the loaded frame
FirstRun(step) ==
    CASE step = "totalArea" -> {[Acreage |-> Acres(Area(input0.feats[1]))]}
      [] step = "hazardClass" -> {HazardResult(input0)}
      [] step = "directProtection" -> {DpaResult(input0)}
      [] step = "parcels" -> {ParcelsResult(input0, tie) : tie \in {"fwd", "rev"}}
      [] step = "totalStructures" -> {StructuresResult(input0)}
      [] step = "generalPlan" -> GeneralPlanResults(input0)
      [] step = "vegetationAnalysis" ->
            IF Clip(input0) = <<>> THEN {} ELSE {VegResult(Clip(input0)[1])}
      [] step = "criticalInfrastructure" -> {FacilitiesResult(input0)}
      [] step = "SRA" -> {SraResult(input0)}

OrderIndependent ==
    \A step \in StepSet :
        /\ status[step] = "ok" => result[step][1] \in FirstRun(step)
        /\ status[step] = "error" => FirstRun(step) = {}

\* C10 as stated: every step leaves the shared input polygon unchanged
\* (features, attribute columns, CRS), so each step's result is the same
\* whichever steps ran before it.
C10_InputPolygonUnchanged ==
    /\ inputPoly = input0
    /\ OrderIndependent

\* C10 amended: every step leaves the features, the CRS and the original
\* columns of the input polygon unchanged; totalArea, and no other step, adds
\* a column "acres" to it; each step's result is the same whichever steps ran
\* before it.
C10_OnlyAcresColumnAdded ==
    /\ inputPoly.feats = input0.feats
    /\ inputPoly.crs = input0.crs
    /\ \A c \in DOMAIN input0.data : inputPoly.data[c] = input0.data[c]
    /\ inputPoly.cols = IF status["totalArea"] = "idle" THEN input0.cols
                        ELSE Append(input0.cols, "acres")
    /\ OrderIndependent

\* generalPlan and vegetationAnalysis have run after totalArea changed the frame
C10_Witness ==
    /\ \A step \in StepSet : status[step] = "ok"
    /\ inputPoly # input0
    /\ Len(result["generalPlan"][1].Designation) >= 2
    /\ DOMAIN result["vegetationAnalysis"][1] # {}

-----------------------------------------------------------------------------
(* Claims about the CRS of the polygon *)

\* the functions that overlay or test the polygon against a vector layer
VectorSteps == StepSet \ {"totalArea", "vegetationAnalysis"}

\* C11: whatever CRS the input file is in, the polygon main passes to the
\* vector aggregations is in EPSG:32610, the CRS of the vector layers, and the
\* polygon that masks the raster is in EPSG:3310.
C11_OperandsShareCrs ==
    /\ pc.at \in {"steps", "done"} =>
          /\ inputPoly.crs = "epsg:32610"
          /\ to_crs(inputPoly, "epsg:3310").crs = "epsg:3310"
    /\ \A step \in VectorSteps :
          status[step] # "idle" => inputPoly.crs = "epsg:32610"

====
